---------------------------- MODULE Spec2Model ----------------------------
(***************************************************************************)
(* shallow-backup: backup.py and reinstall.py as one state machine over a  *)
(* small file system.  Strings are sequences of one-character strings, so  *)
(* that shlex.quote, os.path.join, os.path.split, str.replace,             *)
(* str.startswith and pathlib.Path are computed the way Python computes    *)
(* them.                                                                   *)
(***************************************************************************)
EXTENDS Integers, Sequences, FiniteSets, TLC

VARIABLES
    section,         \* which part of the configuration this run is about
    config,          \* get_config()["dotfiles"]: <<[path, backup_condition, reinstall_condition]>>
    config_mapping,  \* get_config()["config_mapping"]: <<[path, target]>>
    files,           \* file system: resolved path of a regular file -> its content
    dirs,            \* file system: resolved paths of the directories
    pc,              \* position in the running operation ("idle" between operations)
    dry_run,         \* the dry_run argument of the running (or last) operation
    ran,             \* the operations called so far, in order: <<[op, dry_run]>>
    pairs,           \* dot_path_pairs / full_path_dotfiles_to_reinstall
    folders,         \* dotfolders_mp_in
    dotfiles,        \* dotfiles_mp_in
    i,               \* index of the loop the operation is in
    procs,           \* the mp.Process objects backup_dotfiles has started, in order
    log              \* side effects performed, in order

vars == <<section, config, config_mapping, files, dirs, pc, dry_run,
          ran, pairs, folders, dotfiles, i, procs, log>>

-----------------------------------------------------------------------------
(* Strings *)

Letters == {"a", "b", "c", "d", "e", "f", "g", "h", "i", "j", "k", "l", "m",
            "n", "o", "p", "q", "r", "s", "t", "u", "v", "w", "x", "y", "z"}
Digits == {"0", "1", "2", "3", "4", "5", "6", "7", "8", "9"}

\* shlex: the characters quote() leaves alone, [\w@%+=:,./-]
SafeChars == Letters \cup Digits \cup {"_", "@", "%", "+", "=", ":", ",", ".", "/", "-"}

SLASH == <<"/">>
COLON == <<":">>
SQ == <<"'">>

StartsWith(s, p) == Len(p) <= Len(s) /\ SubSeq(s, 1, Len(p)) = p

\* str.replace(old, new) for a non-empty old: every non-overlapping occurrence,
\* left to right
RECURSIVE Replace(_, _, _)
Replace(s, old, new) ==
    IF Len(s) < Len(old) \/ old = <<>> THEN s
    ELSE IF StartsWith(s, old)
         THEN new \o Replace(SubSeq(s, Len(old) + 1, Len(s)), old, new)
         ELSE <<Head(s)>> \o Replace(Tail(s), old, new)

\* shlex.quote
quote(s) ==
    IF s = <<>> THEN SQ \o SQ
    ELSE IF \A k \in 1..Len(s) : s[k] \in SafeChars THEN s
    ELSE SQ \o Replace(s, SQ, <<"'", "\"", "'", "\"", "'">>) \o SQ

\* os.path.join(a, b)
join(a, b) ==
    IF StartsWith(b, SLASH) THEN b
    ELSE IF a = <<>> \/ a[Len(a)] = "/" THEN a \o b
    ELSE a \o SLASH \o b

LastSlash(p) ==
    LET S == {k \in 1..Len(p) : p[k] = "/"}
    IN  IF S = {} THEN 0 ELSE CHOOSE k \in S : \A m \in S : m <= k

RECURSIVE RStripSlash(_)
RStripSlash(s) ==
    IF s # <<>> /\ s[Len(s)] = "/" THEN RStripSlash(SubSeq(s, 1, Len(s) - 1)) ELSE s

\* os.path.split(p)[0]
SplitHead(p) ==
    LET head == SubSeq(p, 1, LastSlash(p))
    IN  IF RStripSlash(head) = <<>> THEN head ELSE RStripSlash(head)

\* os.path.split(p)[1]
SplitTail(p) == SubSeq(p, LastSlash(p) + 1, Len(p))

\* the components of a path: the pieces between slashes, without the empty
\* ones and without "."
RECURSIVE Components(_)
Components(p) ==
    IF p = <<>> THEN <<>>
    ELSE IF Head(p) = "/" THEN Components(Tail(p))
    ELSE LET S == {k \in 1..Len(p) : p[k] = "/"}
             e == IF S = {} THEN Len(p) + 1 ELSE CHOOSE k \in S : \A m \in S : k <= m
             c == SubSeq(p, 1, e - 1)
             rest == Components(SubSeq(p, e, Len(p)))
         IN  IF c = <<".">> THEN rest ELSE <<c>> \o rest

RECURSIVE JoinComponents(_)
JoinComponents(cs) ==
    IF cs = <<>> THEN <<>>
    ELSE IF Len(cs) = 1 THEN cs[1]
    ELSE cs[1] \o SLASH \o JoinComponents(Tail(cs))

\* str(pathlib.Path(p)) on POSIX: slashes collapsed, "." and the trailing
\* slash dropped, exactly two leading slashes kept
Root(p) ==
    IF StartsWith(p, <<"/", "/">>) /\ ~StartsWith(p, <<"/", "/", "/">>) THEN <<"/", "/">>
    ELSE IF StartsWith(p, SLASH) THEN SLASH
    ELSE <<>>

Path(p) ==
    LET s == Root(p) \o JoinComponents(Components(p))
    IN  IF s = <<>> THEN <<".">> ELSE s

\* pathlib.Path(p).parent, as a string
Parent(p) ==
    LET cs == Components(p)
    IN  IF cs = <<>> THEN Path(p)
        ELSE LET s == Root(p) \o JoinComponents(SubSeq(cs, 1, Len(cs) - 1))
             IN  IF s = <<>> THEN <<".">> ELSE s

-----------------------------------------------------------------------------
(* File system *)

\* the working directory relative paths are resolved against
cwd == <<"/", "w">>

\* the path the kernel resolves p to: absolute, slashes collapsed
Resolve(p) ==
    SLASH \o JoinComponents(IF StartsWith(p, SLASH) THEN Components(p)
                            ELSE Components(cwd) \o Components(p))

isfile(p) == Resolve(p) \in DOMAIN files
isdir(p) == Resolve(p) \in dirs
exists(p) == isfile(p) \/ isdir(p)

\* p and every ancestor of p, resolved
RECURSIVE Ancestors(_)
Ancestors(cs) ==
    IF cs = <<>> THEN {SLASH}
    ELSE {SLASH \o JoinComponents(cs)} \cup Ancestors(SubSeq(cs, 1, Len(cs) - 1))

Under(d, p) == p # d /\ (d = SLASH \/ StartsWith(p, d \o SLASH))


\* os.makedirs(p, exist_ok=True): p and its missing ancestors become directories
MkdirP(ds, p) == ds \cup Ancestors(Components(Resolve(p)))

\* utils.safe_mkdir(directory): the directory exists afterwards
safe_mkdir(ds, p) == MkdirP(ds, p)

\* the exception shutil.copyfile(src, dst) raises, or "ok", when the
\* directories are ds
CopyfileResultIn(ds, src, dst) ==
    IF (isfile(src) \/ Resolve(src) \in ds) /\ Resolve(src) = Resolve(dst) THEN "SameFileError"
    ELSE IF Resolve(src) \in ds THEN "IsADirectoryError"
    ELSE IF ~isfile(src) THEN "FileNotFoundError"
    ELSE IF Resolve(dst) \in ds THEN "IsADirectoryError"
    ELSE IF Parent(Resolve(dst)) \notin ds THEN "FileNotFoundError"
    ELSE "ok"

CopyfileResult(src, dst) == CopyfileResultIn(dirs, src, dst)

\* the files after shutil.copyfile(src, dst) has run
CopyfileFiles(src, dst) ==
    [p \in DOMAIN files \cup {Resolve(dst)} |->
        IF p = Resolve(dst) THEN files[Resolve(src)] ELSE files[p]]

\* shutil.copy(src, dst): into dst when dst is a directory, else onto dst
CopyTarget(src, dst) == IF isdir(dst) THEN join(dst, SplitTail(src)) ELSE dst

Rebase(p, src, dst) == dst \o SubSeq(p, Len(src) + 1, Len(p))

\* the files after the tree below src has been copied to dst
TreeFiles(src, dst) ==
    LET s == Resolve(src)
        d == Resolve(dst)
        moved == {p \in DOMAIN files : Under(s, p)}
        new == {Rebase(p, s, d) : p \in moved}
    IN  [q \in DOMAIN files \cup new |->
            IF q \in new THEN files[CHOOSE p \in moved : Rebase(p, s, d) = q]
            ELSE files[q]]

\* the directories after the tree below src has been copied to dst
TreeDirs(src, dst) ==
    LET s == Resolve(src)
        d == Resolve(dst)
    IN  MkdirP(dirs, dst) \cup {Rebase(p, s, d) : p \in {q \in dirs : Under(s, q)}}

\* the exception shutil.copytree(src, dst) raises, or "ok"
CopytreeResult(src, dst) ==
    IF ~isdir(src) THEN (IF isfile(src) THEN "NotADirectoryError" ELSE "FileNotFoundError")
    ELSE IF exists(dst) THEN "FileExistsError"
    ELSE "ok"

\* utils.copytree and utils.copy_dir_if_valid: the directory is copied,
\* into the destination when that exists already
UtilsCopytreeResult(src, dst) ==
    IF ~isdir(src) THEN (IF isfile(src) THEN "NotADirectoryError" ELSE "FileNotFoundError")
    ELSE "ok"

\* a set of paths as a sequence, in the order the directory walk yields them
RECURSIVE SetToSeq(_)
SetToSeq(S) ==
    IF S = {} THEN <<>>
    ELSE LET x == CHOOSE y \in S : TRUE IN <<x>> \o SetToSeq(S \ {x})

\* utils.get_abs_path_subfiles(directory): every file below the directory
get_abs_path_subfiles(directory) ==
    SetToSeq({p \in DOMAIN files : Under(Resolve(directory), p)})

\* os.listdir(path) is non-empty
NonEmptyDir(p) ==
    isdir(p) /\ \E q \in DOMAIN files \cup dirs : Under(Resolve(p), q)

\* a side effect, for the record
Event(kind, op, cmd, src, dst, parent, res) ==
    [kind |-> kind, op |-> op, cmd |-> cmd, src |-> src, dst |-> dst,
     found |-> (src = <<>> \/ exists(src)), parent |-> parent, res |-> res]

NoPath == <<>>

\* utils.overwrite_dir_prompt_if_needed(path, skip): the directory exists
\* afterwards, emptied when the overwrite is accepted
PromptDirs(path, clear) ==
    MkdirP({d \in dirs : ~(clear /\ Under(Resolve(path), d))}, path)

PromptFiles(path, clear) ==
    [p \in {q \in DOMAIN files : ~(clear /\ Under(Resolve(path), q))} |-> files[p]]

-----------------------------------------------------------------------------
(* Configuration *)

\* utils.evaluate_condition: no condition includes the entry, otherwise the
\* shell command decides
ShellSucceeds(cmd) == cmd = "true"
evaluate_condition(condition) == condition = "" \/ ShellSucceeds(condition)

home_path == <<"/", "h">>
dots_dir == <<"/", "b">>
configs_dir == <<"/", "c">>
packages_dir == <<"/", "p">>
fonts_backup_dir == <<"/", "t">>

\* the largest number of entries of a configuration section
MaxEntries == 2

\* dotfile names a configuration may hold: a file in $HOME, an absolute
\* path, a folder in $HOME, a name with a space, a name containing "/b"
DOT_A == <<".", "a">>
DOT_ABS == <<"/", "e", "/", "x">>
DOT_DIR == <<".", "d">>
DOT_SP == <<".", " ", "s">>
DOT_NB == <<".", "c", "/", "b">>
DotNames == <<DOT_A, DOT_ABS, DOT_DIR, DOT_SP, DOT_NB>>

\* where a dotfile name is installed
InstalledPath(name) == join(home_path, name)

Conditions == {<<"", "">>, <<"false", "">>, <<"", "false">>}

\* the ordered selections of at most n of the first k names
RECURSIVE Selections(_, _)
Selections(k, n) ==
    IF k = 0 \/ n = 0 THEN {<<>>}
    ELSE Selections(k - 1, n) \cup {Append(s, k) : s \in Selections(k - 1, n - 1)}


\* the files a dotfile name stands for when it is installed
InstalledFiles(name) ==
    IF name = DOT_DIR THEN {join(InstalledPath(name), <<"f">>)} ELSE {InstalledPath(name)}

\* names whose installed file may be missing
MayBeAbsent == {DOT_A, DOT_ABS}

BaseDirs == {SLASH, home_path, cwd, <<"/", "e">>}

\* a file system holding the given files, each with its own path as content
FilesOf(S) == [p \in {Resolve(q) : q \in S} |-> p]
DirsOf(S) == BaseDirs \cup UNION {Ancestors(Components(Parent(Resolve(q)))) : q \in S}

Idle ==
    /\ pc = "idle"
    /\ dry_run = FALSE
    /\ ran = <<>>
    /\ pairs = <<>>
    /\ folders = <<>>
    /\ dotfiles = <<>>
    /\ i = 0
    /\ procs = <<>>
    /\ log = <<>>

InitDotfiles ==
    /\ section = "dotfiles"
    /\ \E sel \in Selections(Len(DotNames), MaxEntries) :
       \E cond \in [1..Len(sel) -> Conditions] :
       \E present \in [1..Len(sel) -> BOOLEAN] :
          /\ \A k \in 1..Len(sel) : DotNames[sel[k]] \notin MayBeAbsent => present[k]
          /\ config = [k \in 1..Len(sel) |->
                          [path |-> DotNames[sel[k]],
                           backup_condition |-> cond[k][1],
                           reinstall_condition |-> cond[k][2]]]
          /\ LET S == UNION {InstalledFiles(DotNames[sel[k]]) : k \in {m \in 1..Len(sel) : present[m]}}
             IN  files = FilesOf(S) /\ dirs = DirsOf(S)
    /\ config_mapping = <<>>
    /\ Idle

-----------------------------------------------------------------------------
(* backup_dotfiles *)

Call(op, dry) ==
    /\ pc = "idle"
    /\ dry_run' = dry
    /\ ran' = Append(ran, [op |-> op, dry_run |-> dry])
    /\ pairs' = <<>> /\ folders' = <<>> /\ dotfiles' = <<>> /\ i' = 0 /\ procs' = <<>>
    /\ UNCHANGED <<section, config, config_mapping, files, dirs, log>>

\* one operation of a section, a backup first or a reinstall after it
MayBackup(sec) == section = sec /\ ran = <<>>
MayReinstall(sec, op) == section = sec /\ Len(ran) <= 1 /\ op \notin {ran[k].op : k \in 1..Len(ran)}

Call_backup_dotfiles ==
    /\ MayBackup("dotfiles")
    /\ \E dry \in BOOLEAN : Call("backup_dotfiles", dry)
    /\ pc' = "bd_prompt"

\* the prompt of the four backup operations: skipped in a dry run
OverwritePrompt(op, path, next) ==
    /\ IF dry_run
       THEN UNCHANGED <<files, dirs, log>>
       ELSE \E clear \in BOOLEAN :
               /\ dirs' = PromptDirs(path, clear)
               /\ files' = PromptFiles(path, clear)
               /\ log' = Append(log, Event("prompt", op, "", NoPath, path, TRUE, "ok"))
    /\ pc' = next
    /\ UNCHANGED <<section, config, config_mapping, dry_run, ran,
                   pairs, folders, dotfiles, i, procs>>

bd_prompt ==
    /\ pc = "bd_prompt"
    /\ OverwritePrompt("backup_dotfiles", dots_dir, "bd_collect")

\* the (installed path, backup path) pair of one configured dotfile
BackupPair(path, backup_dest_path) ==
    IF StartsWith(path, SLASH)
    THEN LET installed_dotfile_path == quote(COLON \o Tail(path))
         IN  [src |-> path,
              dst |-> quote(join(backup_dest_path, installed_dotfile_path))]
    ELSE [src |-> quote(join(home_path, path)),
          dst |-> quote(join(backup_dest_path, path))]

BackupIncludedAlways(entry) == TRUE
\* whether backup_dotfiles includes the entry
BackupIncluded(entry) == evaluate_condition(entry.backup_condition)

RECURSIVE dot_path_pairs(_, _)
dot_path_pairs(cfg, backup_dest_path) ==
    IF cfg = <<>> THEN <<>>
    ELSE (IF BackupIncluded(Head(cfg))
          THEN <<BackupPair(Head(cfg).path, backup_dest_path)>>
          ELSE <<>>) \o dot_path_pairs(Tail(cfg), backup_dest_path)

AfterCollectNoReturn(dry) == "bd_mkdir"
\* "if dry_run: return" after the pairs have been collected and printed
AfterCollect(dry) == IF dry THEN "idle" ELSE "bd_mkdir"

IsFolderPair(pp) == isdir(pp.src)
IsFilePair(pp) == ~isdir(pp.src)

bd_collect ==
    /\ pc = "bd_collect"
    /\ pairs' = dot_path_pairs(config, dots_dir)
    /\ folders' = SelectSeq(pairs', IsFolderPair)
    /\ dotfiles' = SelectSeq(pairs', IsFilePair)
    /\ i' = 1
    /\ pc' = AfterCollect(dry_run)
    /\ UNCHANGED <<section, config, config_mapping, files, dirs,
                   dry_run, ran, procs, log>>

\* the directory created before the copies for a destination path
MkdirTarget(dest_path) == SplitHead(dest_path)

bd_mkdir ==
    /\ pc = "bd_mkdir"
    /\ LET dests == dotfiles \o folders
       IN  IF i <= Len(dests)
           THEN /\ dirs' = safe_mkdir(dirs, MkdirTarget(dests[i].dst))
                /\ log' = Append(log, Event("mkdir", "backup_dotfiles", "", dests[i].src,
                                            MkdirTarget(dests[i].dst), TRUE, "ok"))
                /\ i' = i + 1
                /\ pc' = pc
           ELSE /\ i' = 1
                /\ pc' = "bd_folders"
                /\ UNCHANGED <<dirs, log>>
    /\ UNCHANGED <<section, config, config_mapping, files, dry_run, ran,
                   pairs, folders, dotfiles, procs>>

Running == {k \in 1..Len(procs) : procs[k].state = "started"}

\* p.start()
StartProcess(target, pp) ==
    procs' = Append(procs, [target |-> target, src |-> pp.src, dst |-> pp.dst,
                            state |-> "started"])

JoinedAtOnce(p) == TRUE
\* p.join() returns
Joined(p) == p.state = "terminated"

bd_folders ==
    /\ pc = "bd_folders"
    /\ IF i <= Len(folders)
       THEN /\ StartProcess("copy_dir_if_valid", folders[i])
            /\ pc' = "bd_join_folder"
            /\ i' = i
       ELSE /\ pc' = "bd_files"
            /\ i' = 1
            /\ UNCHANGED procs
    /\ UNCHANGED <<section, config, config_mapping, files, dirs, dry_run,
                   ran, pairs, folders, dotfiles, log>>

bd_join_folder ==
    /\ pc = "bd_join_folder"
    /\ Joined(procs[Len(procs)])
    /\ pc' = "bd_folders"
    /\ i' = i + 1
    /\ UNCHANGED <<section, config, config_mapping, files, dirs, dry_run,
                   ran, pairs, folders, dotfiles, procs, log>>

bd_files ==
    /\ pc = "bd_files"
    /\ IF i <= Len(dotfiles)
       THEN /\ StartProcess("copyfile", dotfiles[i])
            /\ pc' = "bd_join_file"
            /\ i' = i
       ELSE /\ pc' = "idle"
            /\ i' = 0
            /\ UNCHANGED procs
    /\ UNCHANGED <<section, config, config_mapping, files, dirs, dry_run,
                   ran, pairs, folders, dotfiles, log>>

bd_join_file ==
    /\ pc = "bd_join_file"
    /\ Joined(procs[Len(procs)])
    /\ pc' = "bd_files"
    /\ i' = i + 1
    /\ UNCHANGED <<section, config, config_mapping, files, dirs, dry_run,
                   ran, pairs, folders, dotfiles, procs, log>>

\* a started worker process runs its target to the end, in its own time
WorkerRun ==
    \E k \in Running :
       LET p == procs[k]
           parent == Parent(Resolve(p.dst)) \in dirs
       IN  /\ IF p.target = "copyfile"
              THEN /\ files' = IF CopyfileResult(p.src, p.dst) = "ok"
                               THEN CopyfileFiles(p.src, p.dst) ELSE files
                   /\ dirs' = dirs
                   /\ log' = Append(log, Event("copy", "backup_dotfiles", "", p.src, p.dst,
                                               parent, CopyfileResult(p.src, p.dst)))
              ELSE LET res == UtilsCopytreeResult(p.src, p.dst)
                   IN  /\ files' = IF res = "ok" THEN TreeFiles(p.src, p.dst) ELSE files
                       /\ dirs' = IF res = "ok" THEN TreeDirs(p.src, p.dst) ELSE dirs
                       /\ log' = Append(log, Event("copytree", "backup_dotfiles", "", p.src,
                                                   p.dst, parent, res))
           /\ procs' = [procs EXCEPT ![k].state = "terminated"]
           /\ UNCHANGED <<section, config, config_mapping, pc, dry_run, ran,
                          pairs, folders, dotfiles, i>>


-----------------------------------------------------------------------------
(* reinstall_dots_sb *)

Call_reinstall_dots_sb ==
    /\ MayReinstall("dotfiles", "reinstall_dots_sb")
    /\ \E dry \in BOOLEAN : Call("reinstall_dots_sb", dry)
    /\ pc' = "rd_check"

\* utils.exit_if_dir_is_empty(path, ...): the process exits unless the
\* backup directory holds something
ExitIfDirIsEmpty(path, next) ==
    /\ pc' = IF NonEmptyDir(path) THEN next ELSE "exited"
    /\ i' = 1
    /\ UNCHANGED <<section, config, config_mapping, files, dirs, dry_run,
                   ran, pairs, folders, dotfiles, procs, log>>

rd_check ==
    /\ pc = "rd_check"
    /\ ExitIfDirIsEmpty(dots_dir, "rd_collect")

\* whether reinstall_dots_sb includes the entry
ReinstallIncluded(entry) == evaluate_condition(entry.reinstall_condition)

\* the backed-up files of one configured dotfile
SourcesOf(path, dots_path) ==
    LET real_path_dotfile == join(dots_path, path)
    IN  IF isfile(real_path_dotfile) THEN <<real_path_dotfile>>
        ELSE get_abs_path_subfiles(real_path_dotfile)

RECURSIVE dotfiles_to_reinstall(_, _)
dotfiles_to_reinstall(cfg, dots_path) ==
    IF cfg = <<>> THEN <<>>
    ELSE (IF ReinstallIncluded(Head(cfg)) THEN SourcesOf(Head(cfg).path, dots_path)
          ELSE <<>>) \o dotfiles_to_reinstall(Tail(cfg), dots_path)

\* where a backed-up file is reinstalled
ReinstallDest(source, dots_path) ==
    IF StartsWith(source, COLON) THEN SLASH \o Tail(source)
    ELSE Replace(source, dots_path, home_path \o SLASH)

full_path_dotfiles_to_reinstall(cfg, dots_path) ==
    LET srcs == dotfiles_to_reinstall(cfg, dots_path)
    IN  [k \in 1..Len(srcs) |->
            [src |-> Path(srcs[k]), dst |-> Path(ReinstallDest(srcs[k], dots_path))]]

rd_collect ==
    /\ pc = "rd_collect"
    /\ pairs' = full_path_dotfiles_to_reinstall(config, dots_dir)
    /\ i' = 1
    /\ pc' = "rd_copy"
    /\ UNCHANGED <<section, config, config_mapping, files, dirs, dry_run,
                   ran, folders, dotfiles, procs, log>>

\* what the operating system may answer to a copy: the result the file
\* system gives, or a refusal (no permission, a file gone meanwhile)
CopyAnswers(res) == {res, "PermissionError", "FileNotFoundError"}

CaughtPermissionOnly == {"PermissionError"}
\* the exceptions the copy loop of reinstall_dots_sb catches
Caught == {"PermissionError", "FileNotFoundError"}

rd_copy ==
    /\ pc = "rd_copy"
    /\ IF i > Len(pairs)
       THEN /\ pc' = "idle"
            /\ i' = 0
            /\ UNCHANGED <<files, dirs, log>>
       ELSE IF dry_run
       THEN /\ i' = i + 1
            /\ pc' = pc
            /\ UNCHANGED <<files, dirs, log>>
       ELSE LET dot_source == pairs[i].src
                dot_dest == pairs[i].dst
                made == safe_mkdir(dirs, Parent(dot_dest))
            IN  \E res \in CopyAnswers(CopyfileResultIn(made, dot_source,
                                                          CopyTarget(dot_source, dot_dest))) :
                   /\ dirs' = made
                   /\ files' = IF res = "ok"
                               THEN CopyfileFiles(dot_source, CopyTarget(dot_source, dot_dest))
                               ELSE files
                   /\ log' = Append(log, Event("copy", "reinstall_dots_sb", "", dot_source,
                                               CopyTarget(dot_source, dot_dest),
                                               Parent(Resolve(CopyTarget(dot_source, dot_dest))) \in made,
                                               res))
                   /\ i' = i + 1
                   /\ pc' = IF res = "ok" \/ res \in Caught THEN pc ELSE "crashed"
    /\ UNCHANGED <<section, config, config_mapping, dry_run, ran, pairs,
                   folders, dotfiles, procs>>

-----------------------------------------------------------------------------
(* backup_configs and reinstall_configs_sb *)

\* config_mapping entries a configuration may hold: a file in an
\* application directory, a directory, a file with a space in its name
CFG_FILE == [path |-> <<"/", "h", "/", ".", "k", "/", "s">>, target |-> <<"k", "/", "s">>]
CFG_DIR == [path |-> <<"/", "h", "/", ".", "v">>, target |-> <<"v">>]
CFG_SP == [path |-> <<"/", "h", "/", "m", " ", "n">>, target |-> <<"m", " ", "n">>]
ConfigEntries == <<CFG_FILE, CFG_DIR, CFG_SP>>

\* the files below a configured path, installed or backed up
EntryFiles(e, root) == IF e = CFG_DIR THEN {join(root, <<"u">>)} ELSE {root}

InitConfigs ==
    /\ section = "configs"
    /\ \E sel \in Selections(Len(ConfigEntries), MaxEntries) :
       \E installed \in [1..Len(sel) -> BOOLEAN] :
       \E backed \in [1..Len(sel) -> BOOLEAN] :
          /\ config_mapping = [k \in 1..Len(sel) |-> ConfigEntries[sel[k]]]
          /\ LET S == UNION ({EntryFiles(ConfigEntries[sel[k]], ConfigEntries[sel[k]].path) :
                                 k \in {m \in 1..Len(sel) : installed[m]}}
                             \cup {EntryFiles(ConfigEntries[sel[k]],
                                              join(configs_dir, ConfigEntries[sel[k]].target)) :
                                      k \in {m \in 1..Len(sel) : backed[m]}})
             IN  files = FilesOf(S) /\ dirs = DirsOf(S)
    /\ config = <<>>
    /\ Idle

Call_backup_configs ==
    /\ MayBackup("configs")
    /\ \E dry \in BOOLEAN : Call("backup_configs", dry)
    /\ pc' = "bc_prompt"

bc_prompt ==
    /\ pc = "bc_prompt"
    /\ i' = 1
    /\ IF dry_run
       THEN UNCHANGED <<files, dirs, log>>
       ELSE \E clear \in BOOLEAN :
               /\ dirs' = PromptDirs(configs_dir, clear)
               /\ files' = PromptFiles(configs_dir, clear)
               /\ log' = Append(log, Event("prompt", "backup_configs", "", NoPath, configs_dir,
                                           TRUE, "ok"))
    /\ pc' = "bc_loop"
    /\ UNCHANGED <<section, config, config_mapping, dry_run, ran, pairs, folders,
                   dotfiles, procs>>

\* one pass of the loop of backup_configs
bc_loop ==
    /\ pc = "bc_loop"
    /\ IF i > Len(config_mapping)
       THEN /\ pc' = "idle"
            /\ i' = 0
            /\ UNCHANGED <<files, dirs, log>>
       ELSE LET config_path == config_mapping[i].path
                dest == join(configs_dir, config_mapping[i].target)
                quoted_dest == quote(dest)
            IN  /\ i' = i + 1
                /\ IF dry_run
                   THEN pc' = pc /\ UNCHANGED <<files, dirs, log>>
                   ELSE IF isdir(config_path)
                   THEN LET res == UtilsCopytreeResult(config_path, quoted_dest)
                        IN  /\ files' = IF res = "ok" THEN TreeFiles(config_path, quoted_dest)
                                        ELSE files
                            /\ dirs' = IF res = "ok" THEN TreeDirs(config_path, quoted_dest)
                                       ELSE dirs
                            /\ log' = Append(log, Event("copytree", "backup_configs", "",
                                                        config_path, quoted_dest,
                                                        Parent(Resolve(quoted_dest)) \in dirs, res))
                            /\ pc' = pc
                   ELSE IF isfile(config_path)
                   THEN LET made == safe_mkdir(dirs, Parent(dest))
                            parent == Parent(Resolve(quoted_dest)) \in made
                            res == CopyfileResultIn(made, config_path, quoted_dest)
                        IN  /\ dirs' = made
                            /\ files' = IF res = "ok" THEN CopyfileFiles(config_path, quoted_dest)
                                        ELSE files
                            /\ log' = Append(log, Event("copy", "backup_configs", "",
                                                        config_path, quoted_dest, parent, res))
                            /\ pc' = IF res = "ok" THEN pc ELSE "crashed"
                   ELSE pc' = pc /\ UNCHANGED <<files, dirs, log>>
    /\ UNCHANGED <<section, config, config_mapping, dry_run, ran, pairs, folders,
                   dotfiles, procs>>

Call_reinstall_configs_sb ==
    /\ MayReinstall("configs", "reinstall_configs_sb")
    /\ \E dry \in BOOLEAN : Call("reinstall_configs_sb", dry)
    /\ pc' = "rc_check"

rc_check ==
    /\ pc = "rc_check"
    /\ ExitIfDirIsEmpty(configs_dir, "rc_loop")

\* one pass of the loop of reinstall_configs_sb
rc_loop ==
    /\ pc = "rc_loop"
    /\ IF i > Len(config_mapping)
       THEN /\ pc' = "idle"
            /\ i' = 0
            /\ UNCHANGED <<files, dirs, log>>
       ELSE LET dest_path == quote(config_mapping[i].path)
                source_path == quote(join(configs_dir, config_mapping[i].target))
                parent == Parent(Resolve(dest_path)) \in dirs
            IN  /\ i' = i + 1
                /\ IF dry_run
                   THEN pc' = pc /\ UNCHANGED <<files, dirs, log>>
                   ELSE IF isdir(source_path)
                   THEN LET res == CopytreeResult(source_path, dest_path)
                        IN  /\ files' = IF res = "ok" THEN TreeFiles(source_path, dest_path)
                                        ELSE files
                            /\ dirs' = IF res = "ok" THEN TreeDirs(source_path, dest_path)
                                       ELSE dirs
                            /\ log' = Append(log, Event("copytree", "reinstall_configs_sb", "",
                                                        source_path, dest_path, parent, res))
                            /\ pc' = IF res = "ok" THEN pc ELSE "crashed"
                   ELSE IF isfile(source_path)
                   THEN LET res == CopyfileResult(source_path, dest_path)
                        IN  /\ files' = IF res = "ok" THEN CopyfileFiles(source_path, dest_path)
                                        ELSE files
                            /\ dirs' = dirs
                            /\ log' = Append(log, Event("copy", "reinstall_configs_sb", "",
                                                        source_path, dest_path, parent, res))
                            /\ pc' = IF res = "ok" THEN pc ELSE "crashed"
                   ELSE pc' = pc /\ UNCHANGED <<files, dirs, log>>
    /\ UNCHANGED <<section, config, config_mapping, dry_run, ran, pairs, folders,
                   dotfiles, procs>>

-----------------------------------------------------------------------------
(* backup_packages and reinstall_packages_sb *)

\* the package managers backup_packages lists, in its order
Managers == <<"brew", "gem", "cargo", "pip", "pip3", "npm", "apm", "vscode", "macports",
              "system_apps">>

Chars(name) ==
    CASE name = "brew" -> <<"b", "r", "e", "w">>
      [] name = "gem" -> <<"g", "e", "m">>
      [] name = "cargo" -> <<"c", "a", "r", "g", "o">>
      [] name = "pip" -> <<"p", "i", "p">>
      [] name = "pip3" -> <<"p", "i", "p", "3">>
      [] name = "npm" -> <<"n", "p", "m">>
      [] name = "npm_temp" -> <<"n", "p", "m", "_", "t", "e", "m", "p">>
      [] name = "apm" -> <<"a", "p", "m">>
      [] name = "vscode" -> <<"v", "s", "c", "o", "d", "e">>
      [] name = "macports" -> <<"m", "a", "c", "p", "o", "r", "t", "s">>
      [] name = "system_apps" -> <<"s", "y", "s", "t", "e", "m", "_", "a", "p", "p", "s">>

LIST_TXT == <<"_", "l", "i", "s", "t", ".", "t", "x", "t">>

\* f"{backup_path}/<name>_list.txt"
ListFile(backup_path, name) == backup_path \o SLASH \o Chars(name) \o LIST_TXT

\* exit statuses a command may return
Statuses == {0, 1}

\* the files after `content` has been written to path
WriteFile(fs, path, content) ==
    [p \in DOMAIN fs \cup {Resolve(path)} |-> IF p = Resolve(path) THEN content ELSE fs[p]]

RemoveFile(fs, path) == [p \in DOMAIN fs \ {Resolve(path)} |-> fs[p]]

InitPackages ==
    /\ section = "packages"
    /\ config = <<>>
    /\ config_mapping = <<>>
    /\ files = FilesOf({})
    /\ dirs = DirsOf({})
    /\ Idle

Call_backup_packages ==
    /\ MayBackup("packages")
    /\ \E dry \in BOOLEAN : Call("backup_packages", dry)
    /\ pc' = "bp_prompt"

bp_prompt ==
    /\ pc = "bp_prompt"
    /\ i' = 1
    /\ IF dry_run
       THEN UNCHANGED <<files, dirs, log>>
       ELSE \E clear \in BOOLEAN :
               /\ dirs' = PromptDirs(packages_dir, clear)
               /\ files' = PromptFiles(packages_dir, clear)
               /\ log' = Append(log, Event("prompt", "backup_packages", "", NoPath,
                                           packages_dir, TRUE, "ok"))
    /\ pc' = "bp_mgr"
    /\ UNCHANGED <<section, config, config_mapping, dry_run, ran, pairs, folders,
                   dotfiles, procs>>

ResOf(status) == IF status = 0 THEN "ok" ELSE "failed"

\* npm_backup_cmd_success
NpmChained(status) == status = 0

\* what run_cmd_if_no_dry_run returns in a dry run
DryRunStatus == -1

\* utils.run_cmd_write_stdout(command, dest): the command's output is
\* written to dest when the command succeeded
run_cmd_write_stdout(fs, dest, content, status) ==
    IF status = 0 THEN WriteFile(fs, dest, content) ELSE fs

\* one package manager of backup_packages: its command runs, and its
\* output is kept when the command succeeded
bp_mgr ==
    /\ pc = "bp_mgr"
    /\ IF i > Len(Managers)
       THEN /\ pc' = "idle"
            /\ i' = 0
            /\ UNCHANGED <<files, dirs, log>>
       ELSE LET m == Managers[i]
                dest == ListFile(packages_dir, IF m = "npm" THEN "npm_temp" ELSE m)
            IN  \E st \in (IF dry_run THEN {DryRunStatus} ELSE Statuses) :
                   /\ IF dry_run
                      THEN UNCHANGED <<files, log>>
                      ELSE /\ files' = run_cmd_write_stdout(files, dest, Chars(m), st)
                           /\ log' = Append(log, Event("cmd", "backup_packages", m, NoPath,
                                                       dest, TRUE, ResOf(st)))
                   /\ IF m = "npm" /\ NpmChained(st)
                      THEN pc' = "bp_npm_parse" /\ i' = i
                      ELSE pc' = pc /\ i' = i + 1
                   /\ UNCHANGED dirs
    /\ UNCHANGED <<section, config, config_mapping, dry_run, ran, pairs, folders,
                   dotfiles, procs>>

\* the parsing step: npm_list.txt is written from npm_temp_list.txt
bp_npm_parse ==
    /\ pc = "bp_npm_parse"
    /\ LET temp_file_path == ListFile(packages_dir, "npm_temp")
           npm_dest_file == ListFile(packages_dir, "npm")
       IN  IF isfile(temp_file_path)
           THEN /\ files' = WriteFile(files, npm_dest_file, Chars("npm"))
                /\ log' = Append(log, Event("write", "backup_packages", "npm", temp_file_path,
                                            npm_dest_file, TRUE, "ok"))
                /\ pc' = "bp_npm_remove"
           ELSE /\ pc' = "crashed"
                /\ UNCHANGED <<files, log>>
    /\ UNCHANGED <<section, config, config_mapping, dirs, dry_run, ran, pairs, folders,
                   dotfiles, i, procs>>

KeepTemp(fs, path) == fs
\* os.remove(temp_file_path)
RemoveTemp(fs, path) == RemoveFile(fs, path)

bp_npm_remove ==
    /\ pc = "bp_npm_remove"
    /\ files' = RemoveTemp(files, ListFile(packages_dir, "npm_temp"))
    /\ pc' = "bp_mgr"
    /\ i' = i + 1
    /\ UNCHANGED <<section, config, config_mapping, dirs, dry_run, ran, pairs, folders,
                   dotfiles, procs, log>>

Call_reinstall_packages_sb ==
    /\ MayReinstall("packages", "reinstall_packages_sb")
    /\ \E dry \in BOOLEAN : Call("reinstall_packages_sb", dry)
    /\ pc' = "rp_check"

rp_check ==
    /\ pc = "rp_check"
    /\ ExitIfDirIsEmpty(packages_dir, "rp_run")

\* os.listdir(path)
listdir(path) ==
    {SplitTail(q) : q \in {r \in DOMAIN files \cup dirs :
                              r # SLASH /\ Parent(r) = Resolve(path)}}

NameError == "NameError"

\* the managers reinstall_packages_sb restores
Restorable == {"brew", "npm", "pip", "pip3", "vscode", "apm"}
\* the set comprehension of reinstall_packages_sb: its element and its
\* filter read `manager`, a name no statement binds (the loop variable is
\* `file`), so the first file of the listing raises NameError
package_mgrs(listing) == IF listing = {} THEN {} ELSE NameError

\* the restore commands, one per restorable manager found
RestoreEvents(mgrs) ==
    LET order == SetToSeq(mgrs \cap Restorable)
    IN  [k \in 1..Len(order) |->
            Event("cmd", "reinstall_packages_sb", order[k],
                  ListFile(packages_dir, order[k]), NoPath, TRUE, "ok")]

\* the listing is scanned and every manager found is restored
rp_run ==
    /\ pc = "rp_run"
    /\ LET mgrs == package_mgrs(listdir(packages_dir))
       IN  IF mgrs = NameError
           THEN pc' = "crashed" /\ log' = log
           ELSE /\ pc' = "idle"
                /\ log' = IF dry_run THEN log ELSE log \o RestoreEvents(mgrs)
    /\ UNCHANGED <<section, config, config_mapping, files, dirs, dry_run, ran, pairs,
                   folders, dotfiles, i, procs>>

-----------------------------------------------------------------------------
(* backup_fonts and reinstall_fonts_sb *)

\* compatibility.get_fonts_dir()
fonts_dir == <<"/", "f">>

FONT_OTF == <<"a", ".", "o", "t", "f">>
FONT_TTF == <<"g", " ", "h", ".", "t", "t", "f">>
NOT_FONT == <<"n", ".", "t", "x", "t">>
FontNames == {FONT_OTF, FONT_TTF, NOT_FONT}

EndsWith(s, suf) == Len(suf) <= Len(s) /\ SubSeq(s, Len(s) - Len(suf) + 1, Len(s)) = suf

InitFonts ==
    /\ section = "fonts"
    /\ config = <<>>
    /\ config_mapping = <<>>
    /\ \E present \in SUBSET FontNames : \E has_dir \in BOOLEAN :
          /\ present # {} => has_dir
          /\ files = FilesOf({join(fonts_dir, f) : f \in present})
          /\ dirs = DirsOf({}) \cup (IF has_dir THEN {fonts_dir} ELSE {})
    /\ Idle

Call_backup_fonts ==
    /\ MayBackup("fonts")
    /\ \E dry \in BOOLEAN : Call("backup_fonts", dry)
    /\ pc' = "bf_prompt"

IsFontName(font) == EndsWith(font, <<".", "o", "t", "f">>) \/ EndsWith(font, <<".", "t", "t", "f">>)

bf_prompt ==
    /\ pc = "bf_prompt"
    /\ i' = 1
    /\ IF dry_run
       THEN UNCHANGED <<files, dirs, log>>
       ELSE \E clear \in BOOLEAN :
               /\ dirs' = PromptDirs(fonts_backup_dir, clear)
               /\ files' = PromptFiles(fonts_backup_dir, clear)
               /\ log' = Append(log, Event("prompt", "backup_fonts", "", NoPath,
                                           fonts_backup_dir, TRUE, "ok"))
    /\ pairs' = IF isdir(fonts_dir)
                THEN LET fonts == SetToSeq({f \in listdir(fonts_dir) : IsFontName(f)})
                     IN  [k \in 1..Len(fonts) |->
                             LET font == quote(join(fonts_dir, fonts[k]))
                             IN  [src |-> font, dst |-> join(fonts_backup_dir, SplitTail(font))]]
                ELSE <<>>
    /\ pc' = "bf_loop"
    /\ UNCHANGED <<section, config, config_mapping, dry_run, ran, folders, dotfiles, procs>>

\* one pass of the loop of a fonts operation: copyfile(src, dst) unless
\* this is a dry run
FontCopy(op, src, dst) ==
    IF dry_run
    THEN pc' = pc /\ UNCHANGED <<files, log>>
    ELSE LET res == CopyfileResult(src, dst)
         IN  /\ files' = IF res = "ok" THEN CopyfileFiles(src, dst) ELSE files
             /\ log' = Append(log, Event("copy", op, "", src, dst,
                                         Parent(Resolve(dst)) \in dirs, res))
             /\ pc' = IF res = "ok" THEN pc ELSE "crashed"

bf_loop ==
    /\ pc = "bf_loop"
    /\ IF i > Len(pairs)
       THEN pc' = "idle" /\ i' = 0 /\ UNCHANGED <<files, log>>
       ELSE /\ i' = i + 1
            /\ IF exists(pairs[i].src)
               THEN FontCopy("backup_fonts", pairs[i].src, pairs[i].dst)
               ELSE pc' = pc /\ UNCHANGED <<files, log>>
    /\ UNCHANGED <<section, config, config_mapping, dirs, dry_run, ran, pairs, folders,
                   dotfiles, procs>>

Call_reinstall_fonts_sb ==
    /\ MayReinstall("fonts", "reinstall_fonts_sb")
    /\ \E dry \in BOOLEAN : Call("reinstall_fonts_sb", dry)
    /\ pc' = "rf_check"

rf_check ==
    /\ pc = "rf_check"
    /\ pc' = IF NonEmptyDir(fonts_backup_dir) THEN "rf_loop" ELSE "exited"
    /\ i' = 1
    /\ pairs' = LET fonts == get_abs_path_subfiles(fonts_backup_dir)
                IN  [k \in 1..Len(fonts) |->
                        [src |-> fonts[k],
                         dst |-> quote(join(fonts_dir, SplitTail(fonts[k])))]]
    /\ UNCHANGED <<section, config, config_mapping, files, dirs, dry_run, ran, folders,
                   dotfiles, procs, log>>

rf_loop ==
    /\ pc = "rf_loop"
    /\ IF i > Len(pairs)
       THEN /\ pc' = "idle"
            /\ i' = 0
            /\ UNCHANGED <<files, log>>
       ELSE /\ i' = i + 1
            /\ FontCopy("reinstall_fonts_sb", quote(pairs[i].src), quote(pairs[i].dst))
    /\ UNCHANGED <<section, config, config_mapping, dirs, dry_run, ran, pairs, folders,
                   dotfiles, procs>>

-----------------------------------------------------------------------------

Init == InitDotfiles \/ InitConfigs \/ InitPackages \/ InitFonts

Next ==
    \/ Call_backup_dotfiles
    \/ bd_prompt
    \/ bd_collect
    \/ bd_mkdir
    \/ bd_folders
    \/ bd_join_folder
    \/ bd_files
    \/ bd_join_file
    \/ WorkerRun
    \/ Call_reinstall_dots_sb
    \/ rd_check
    \/ rd_collect
    \/ rd_copy
    \/ Call_backup_configs
    \/ bc_prompt
    \/ bc_loop
    \/ Call_reinstall_configs_sb
    \/ rc_check
    \/ rc_loop
    \/ Call_backup_packages
    \/ bp_prompt
    \/ bp_mgr
    \/ bp_npm_parse
    \/ bp_npm_remove
    \/ Call_reinstall_packages_sb
    \/ rp_check
    \/ rp_run
    \/ Call_backup_fonts
    \/ bf_prompt
    \/ bf_loop
    \/ Call_reinstall_fonts_sb
    \/ rf_check
    \/ rf_loop

Spec == Init /\ [][Next]_vars

-----------------------------------------------------------------------------
(* Properties *)

LogIdx == 1..Len(log)

Called(op) == \E k \in 1..Len(ran) : ran[k].op = op
CalledForReal(op) == \E k \in 1..Len(ran) : ran[k].op = op /\ ~ran[k].dry_run
Stopped == pc \in {"idle", "crashed", "exited"}
Ended(op) == Called(op) /\ (ran[Len(ran)].op # op \/ Stopped)

\* both dotfile operations ran for real, the reinstall ended, and the
\* operating system refused no copy
DotsRoundTripDone ==
    /\ CalledForReal("backup_dotfiles")
    /\ CalledForReal("reinstall_dots_sb")
    /\ Ended("reinstall_dots_sb")
    /\ \A k \in LogIdx : log[k].op = "reinstall_dots_sb" => log[k].res \notin {"PermissionError", "FileNotFoundError"}

BothIncluded(entry) ==
    evaluate_condition(entry.backup_condition) /\ evaluate_condition(entry.reinstall_condition)

\* the reinstall copied the backed-up file `from` onto `to`
Reinstalled(from, to) ==
    \E k \in LogIdx :
       /\ log[k].op = "reinstall_dots_sb" /\ log[k].kind = "copy" /\ log[k].res = "ok"
       /\ Resolve(log[k].src) = Resolve(from)
       /\ Resolve(log[k].dst) = Resolve(to)

\* C1: every configured dotfile with an absolute path that backup_dotfiles
\* stored under ":" + path-without-leading-slash in the backup directory is
\* found there by reinstall_dots_sb and copied back to exactly its absolute path
C1_AbsoluteRoundTrip ==
    DotsRoundTripDone =>
       \A k \in 1..Len(config) :
          LET path == config[k].path
              escaped == join(dots_dir, COLON \o Tail(path))
          IN  (StartsWith(path, SLASH) /\ BothIncluded(config[k]) /\ isfile(escaped))
                 => Reinstalled(escaped, path)

CopyKinds == {"copy", "copytree", "mkdir"}
CopyOps == {"backup_dotfiles", "backup_configs", "reinstall_dots_sb", "reinstall_configs_sb"}

\* C2: the four copying operations attempt no copy and create no directory
\* for an entry whose source path does not exist
C2_AbsentSourceSkipped ==
    \A k \in LogIdx :
       (log[k].op \in CopyOps /\ log[k].kind \in CopyKinds) => log[k].found

\* C3: whenever one of the four copying operations writes a file, the parent
\* directory of the path handed to the copy exists when the write starts
C3_ParentExistsBeforeWrite ==
    \A k \in LogIdx :
       (log[k].op \in CopyOps /\ log[k].kind = "copy") => log[k].parent

\* events of `op` about the (installed or backed-up) source `src`
Touches(k, op, src) ==
    /\ log[k].op = op
    /\ log[k].kind \in CopyKinds
    /\ (Resolve(log[k].src) = Resolve(src) \/ Under(Resolve(src), Resolve(log[k].src)))

BackupReturned ==
    /\ CalledForReal("backup_dotfiles")
    /\ (Len(ran) > 1 \/ pc = "idle")

ReinstallCompleted ==
    /\ CalledForReal("reinstall_dots_sb")
    /\ ran[Len(ran)].op = "reinstall_dots_sb"
    /\ pc = "idle"

C5_DryRunChangesNothing ==
    [][(pc # "idle" /\ dry_run) => UNCHANGED <<files, dirs, log>>]_vars

\* a dry run that had entries to handle has returned
C5_Witness ==
    /\ pc = "idle"
    /\ ran # <<>>
    /\ ran[Len(ran)].dry_run
    /\ pairs # <<>>

\* C6: after reinstall_packages_sb (dry_run=False) the restore command of a
\* restorable manager has run exactly when its list file is present
C6_RestorePerListFile ==
    (CalledForReal("reinstall_packages_sb") /\ Stopped)
       => \A m \in Restorable :
             isfile(ListFile(packages_dir, m))
                <=> \E k \in LogIdx : /\ log[k].op = "reinstall_packages_sb"
                                      /\ log[k].kind = "cmd"
                                      /\ log[k].cmd = m

IsReinstallCopy(e) == e.op = "reinstall_dots_sb" /\ e.kind = "copy"
ReinstallCopies == SelectSeq(log, IsReinstallCopy)

InReinstallDots ==
    /\ ran # <<>>
    /\ ran[Len(ran)].op = "reinstall_dots_sb"
    /\ ~dry_run

\* C7: in reinstall_dots_sb a PermissionError or FileNotFoundError of one copy
\* does not abort the run: the pairs are processed in order, a crash is never due to one of the two, the
\* files copied so far stay, and the completion step comes after the last pair
C7_CaughtErrorsDoNotAbort ==
    InReinstallDots =>
       LET evs == ReinstallCopies
       IN  /\ pc = "rd_copy" =>
                /\ Len(evs) = i - 1
                /\ i <= Len(pairs) + 1
                /\ \A k \in 1..Len(evs) : evs[k].src = pairs[k].src
           /\ pc = "crashed" =>
                /\ evs # <<>>
                /\ evs[Len(evs)].res \notin {"ok", "PermissionError", "FileNotFoundError"}
           /\ pc = "idle" => Len(evs) = Len(pairs)
           /\ \A k \in 1..Len(evs) : evs[k].res = "ok" => isfile(evs[k].dst)

\* a refused copy followed by a good one, and the completion step
C7_Witness ==
    /\ InReinstallDots
    /\ pc = "idle"
    /\ \E j, k \in 1..Len(ReinstallCopies) :
          /\ j < k
          /\ ReinstallCopies[j].res \in {"PermissionError", "FileNotFoundError"}
          /\ ReinstallCopies[k].res = "ok"

\* C8: backup_dotfiles has at most one copy worker running, every worker
\* but the last started has terminated, no dotfile copy starts before every
\* dotfolder copy has finished, and no worker runs once it has returned
C8_OneWorkerAtATime ==
    /\ Cardinality(Running) <= 1
    /\ \A k \in 1..Len(procs) - 1 : procs[k].state = "terminated"
    /\ \A j, k \in 1..Len(procs) :
          (procs[j].target = "copyfile" /\ procs[k].target = "copy_dir_if_valid")
             => (k < j /\ procs[k].state = "terminated")
    /\ (Called("backup_dotfiles") /\ pc = "idle") => Running = {}

\* a dotfile worker running after a dotfolder worker
C8_Witness ==
    /\ Len(procs) = 2
    /\ procs[1].target = "copy_dir_if_valid"
    /\ procs[2].target = "copyfile"
    /\ procs[2].state = "started"

\* C9: every home-relative dotfile that is a file under home_path is, after
\* backup_dotfiles into D and reinstall_dots_sb from D, copied from D/<entry>
\* back to exactly home_path/<entry>
C9_HomeRoundTrip ==
    DotsRoundTripDone =>
       \A k \in 1..Len(config) :
          LET path == config[k].path
          IN  (~StartsWith(path, SLASH) /\ BothIncluded(config[k])
               /\ isfile(join(home_path, path)))
                 => Reinstalled(join(dots_dir, path), join(home_path, path))

NpmIndex == CHOOSE k \in 1..Len(Managers) : Managers[k] = "npm"

NpmListWritten == \E k \in LogIdx : log[k].kind = "write"

PastNpm ==
    /\ Called("backup_packages")
    /\ (pc = "bp_mgr" /\ i > NpmIndex) \/ Ended("backup_packages")

\* C10: npm_list.txt is written only right after the npm listing command
\* returned 0 and never in a dry run, and once it is written npm_temp_list.txt
\* is gone when the next package manager is processed
C10_NpmChained ==
    /\ \A k \in LogIdx :
          log[k].kind = "write" =>
             /\ k > 1
             /\ log[k - 1].kind = "cmd" /\ log[k - 1].cmd = "npm" /\ log[k - 1].res = "ok"
             /\ ~ran[1].dry_run
    /\ isfile(ListFile(packages_dir, "npm")) => NpmListWritten
    /\ (PastNpm /\ NpmListWritten) => ~isfile(ListFile(packages_dir, "npm_temp"))

\* apm is about to be processed after npm_list.txt was written
C10_Witness ==
    /\ pc = "bp_mgr"
    /\ i = NpmIndex + 1
    /\ isfile(ListFile(packages_dir, "npm"))

=============================================================================
